---- MODULE Spec2Model ----
(***************************************************************************)
(* Model of the documentation mirror (monitor.py) and of the translation   *)
(* pipeline (translate.py).                                                *)
(*                                                                         *)
(*   SpecMon  : monitor.main, repeated runs over a small documentation     *)
(*              site: link discovery, change detection, fingerprint store. *)
(*   SpecTr   : translate.main, repeated runs over a small set of source   *)
(*              files: batching, retry, fallback, processed-file store.    *)
(*   SpecCodec: the protection codec (protect_code_identifiers,            *)
(*              protect_terminology, unprotect_terminology) on bounded     *)
(*              texts and dictionaries.                                    *)
(***************************************************************************)
EXTENDS Integers, Sequences, FiniteSets, TLC

VARIABLES
    \* ---- monitor.py --------------------------------------------------
    site,            \* the upstream site: page URL -> set of hrefs on the page
    content,         \* the upstream site: page URL -> body bytes
    mpc,             \* position of monitor.main
    run,             \* number of the monitor run
    to_crawl,        \* main: to_crawl
    crawled,         \* main: crawled
    all_links,       \* main: all_links
    discoverCount,   \* history: URL -> number of discover_links calls on it
    discoverFailed,  \* history: the URLs whose fetch in discover_links raised
    hashFile,        \* HASH_FILE on disk: absent, torn or a map URL -> digest
    previous_hashes, \* main: previous_hashes
    current_hashes,  \* main: current_hashes
    updated_or_new_urls, \* main: updated_or_new_urls
    updateLog,       \* UPDATE_LOG on disk: sequence of lines
    checkQueue,      \* main: the rest of sorted(list(all_links))
    checkFailed,     \* history: the URLs whose fetch failed in this run's check
    sourceDir,       \* SOURCE_DIR on disk: local path -> bytes
    hashWrites,      \* history: number of save_hashes calls of this run
    prevRun,         \* history: what the previous monitor run saw and did
    \* ---- translate.py ------------------------------------------------
    docs,            \* SOURCE_DIR on disk: file -> parsed document
    terminology,     \* TERMINOLOGY_FILE: the items of en_to_ka, in order
    stateFile,       \* STATE_FILE on disk: absent, torn or a set of files
    translatedDir,   \* TRANSLATED_DIR on disk: file -> written document
    tpc,             \* position of translate.main
    trun,            \* number of the translation run
    processed_files, \* main: processed_files
    todo,            \* main: the rest of files_to_process, the current file first
    soup,            \* main: soup, the document being translated
    nodes,           \* translate_soup_content: translatable_nodes (positions in soup)
    bi,              \* translate_soup_content: i, the start of the current batch
    attempt,         \* translate_batch_with_retry: attempt
    calls,           \* history: provider calls made by the current translate_batch_with_retry
    waits,           \* history: the time.sleep() delays of the current translate_batch_with_retry
    tracker,         \* main: char_limit_tracker['count']
    runLog,          \* history: the batches of this run and how each ended
    attempted,       \* history: the files this run has read or tried to read
    failed,          \* history: the files whose processing raised in this run
    completed,       \* history: the files whose processing completed, in any run
    prior,           \* history: how the run before ended and what had completed by then
    \* ---- the protection codec on its own ------------------------------
    ctext,           \* the text given
    cdict,           \* the terminology given
    cstage,          \* how far the text has gone through the codec
    ccur,            \* the text at this stage
    cph,             \* the placeholders recorded by protect_terminology
    cstub,           \* the translation applied: "identity" or "provider"
    \* ---- save_html_file on its own ------------------------------------
    hurl,            \* the URL given
    hbase,           \* the base URL given
    hbody,           \* the content given
    hdir,            \* the directory tree under base_dir
    hstage,          \* "given" before the call, "saved" after it
    \* ---- the classifier of translate_soup_content on its own ----------
    sdoc,            \* the parsed document given: soup.find_all(string=True)
    snodes,          \* translatable_nodes (positions in sdoc)
    sbi,             \* i, the start of the current batch
    sout,            \* the document as it stands
    sstage           \* "parsed", "classified" or "returned"

monVars == <<site, content, mpc, run, to_crawl, crawled, all_links, discoverCount,
             discoverFailed, hashFile, previous_hashes, current_hashes,
             updated_or_new_urls, updateLog, checkQueue, checkFailed, sourceDir,
             hashWrites, prevRun>>

trVars == <<docs, terminology, stateFile, translatedDir, tpc, trun, processed_files,
            todo, soup, nodes, bi, attempt, calls, waits, tracker, runLog, attempted,
            failed, completed, prior>>

codecVars == <<ctext, cdict, cstage, ccur, cph, cstub>>

pathVars == <<hurl, hbase, hbody, hdir, hstage>>

soupVars == <<sdoc, snodes, sbi, sout, sstage>>

vars == <<monVars, trVars, codecVars, pathVars, soupVars>>

----------------------------------------------------------------------------
(* Bounds of the model *)

\* number of nodes of a document given to the classifier
MaxNodes == 3

\* number of monitor runs in a behaviour
MaxRuns == 2

\* the number of monitor runs over an unchanged upstream
MaxSameRuns == 3

\* number of translation runs in a behaviour
MaxTrRuns == 2

\* length of the texts given to the codec
MaxTextLen == 3

----------------------------------------------------------------------------
(* Generic helpers *)

Range(s) == {s[i] : i \in 1..Len(s)}

Front(s) == SubSeq(s, 1, Len(s) - 1)

Last(s) == s[Len(s)]

IsPrefix(p, s) == Len(p) <= Len(s) /\ SubSeq(s, 1, Len(p)) = p

Count(s, x) == Cardinality({i \in 1..Len(s) : s[i] = x})

\* a counter kept per key: 0 for a key never counted
Calls(d, k) == IF k \in DOMAIN d THEN d[k] ELSE 0

\* the empty dict
EmptyMap == [u \in {} |-> ""]

\* dict.get(key): the value, or None
None == <<"None">>

Get(d, k) == IF k \in DOMAIN d THEN d[k] ELSE None

\* dict[key] = value
Put(d, k, v) == [x \in (DOMAIN d) \cup {k} |-> IF x = k THEN v ELSE d[x]]

----------------------------------------------------------------------------
(* URLs: scheme and host are one field, the path is the sequence of its     *)
(* segments; a path that ends in "/" ends in the empty segment.             *)

Url(h, p) == [host |-> h, path |-> p, query |-> "", fragment |-> ""]

\* monitor.py:11, the path shortened to one directory
BASE_URL == Url("docs", <<"latest", "">>)

\* an href attribute: host "" for a relative reference; abs for a leading "/"
Href(h, a, s, q, f) == [host |-> h, abs |-> a, segs |-> s, query |-> q, fragment |-> f]

\* RFC 3986 remove_dot_segments, as urljoin applies it to the merged path
RECURSIVE RemoveDots(_, _)
RemoveDots(in, out) ==
    IF in = <<>> THEN out
    ELSE IF Head(in) = ".."
         THEN IF Len(in) = 1
              THEN (IF out = <<>> THEN <<>> ELSE Front(out)) \o <<"">>
              ELSE RemoveDots(Tail(in), IF out = <<>> THEN <<>> ELSE Front(out))
         ELSE RemoveDots(Tail(in), Append(out, Head(in)))

\* urllib.parse.urljoin(base, href)
urljoin(base, href) ==
    IF href.host # ""
    THEN [host |-> href.host, path |-> RemoveDots(href.segs, <<>>),
          query |-> href.query, fragment |-> href.fragment]
    ELSE IF href.abs
    THEN [host |-> base.host, path |-> RemoveDots(href.segs, <<>>),
          query |-> href.query, fragment |-> href.fragment]
    ELSE IF href.segs = <<>>
    THEN [host |-> base.host, path |-> base.path,
          query |-> IF href.query # "" THEN href.query ELSE base.query,
          fragment |-> href.fragment]
    ELSE [host |-> base.host, path |-> RemoveDots(Front(base.path) \o href.segs, <<>>),
          query |-> href.query, fragment |-> href.fragment]

\* urlparse(full_url)._replace(fragment="", query="").geturl()
StripFragmentQuery(u) == [u EXCEPT !.query = "", !.fragment = ""]

\* full_url.startswith(base_url), on the URL's text
StartsWith(u, base) ==
    /\ u.host = base.host
    /\ base.query = "" /\ base.fragment = ""
    /\ Len(u.path) >= Len(base.path)
    /\ SubSeq(u.path, 1, Len(base.path) - 1) = Front(base.path)

----------------------------------------------------------------------------
(* The upstream site *)

PRoot == Url("docs", <<"latest", "">>)
PA    == Url("docs", <<"latest", "a.html">>)
PB    == Url("docs", <<"latest", "sub", "b.html">>)
PC    == Url("docs", <<"latest", "sub", "c.html">>)

\* the pages that exist upstream; any other URL answers 404
Pages == {PRoot, PA, PB, PC}

HrefA      == Href("", FALSE, <<"a.html">>, "", "")
HrefSubB   == Href("", FALSE, <<"sub", "b.html">>, "", "")
HrefC      == Href("", FALSE, <<"c.html">>, "", "")
HrefUpA    == Href("", FALSE, <<"..", "a.html">>, "", "")
HrefTop    == Href("", FALSE, <<>>, "", "top")
HrefAQuery == Href("", FALSE, <<"a.html">>, "v=1", "")
HrefRoot   == Href("", TRUE, <<"latest", "">>, "", "")
HrefExt    == Href("ext", TRUE, <<"x.html">>, "", "")

\* the link sets a page may carry
AllHrefs == {HrefA, HrefSubB, HrefC, HrefUpA, HrefTop, HrefAQuery, HrefRoot, HrefExt}

LinkChoices(p) ==
    IF p = PRoot THEN {{HrefA, HrefSubB, HrefTop}, {HrefSubB, HrefExt}}
    ELSE IF p = PA THEN {{HrefRoot, HrefAQuery}, {}}
    ELSE IF p = PB THEN {{HrefC}, {HrefUpA, HrefTop}}
    ELSE {{HrefRoot}}

Sites == {s \in [Pages -> {ls \in SUBSET AllHrefs : \E p \in Pages : ls \in LinkChoices(p)}] :
            \A p \in Pages : s[p] \in LinkChoices(p)}

\* page bodies; "" is the empty body
Contents == {"", "v1", "v2"}

\* hashlib.sha256(content).hexdigest(): one digest per body, never empty
Sha256(c) == <<"sha256", c>>

\* the order of sorted() on the segments the model uses
SegOrd(s) ==
    CASE s = ""       -> 0
      [] s = "a.html" -> 1
      [] s = "b.html" -> 2
      [] s = "c.html" -> 3
      [] s = "latest" -> 4
      [] s = "sub"    -> 5
      [] s = "x.html" -> 6
      [] OTHER        -> 7

RECURSIVE PathLess(_, _)
PathLess(p, q) ==
    IF q = <<>> THEN FALSE
    ELSE IF p = <<>> THEN TRUE
    ELSE IF Head(p) = Head(q) THEN PathLess(Tail(p), Tail(q))
    ELSE SegOrd(Head(p)) < SegOrd(Head(q))

UrlLess(u, v) == IF u.host = v.host THEN PathLess(u.path, v.path) ELSE u.host = "docs"

\* sorted(list(urls))
RECURSIVE Sorted(_)
Sorted(S) ==
    IF S = {} THEN <<>>
    ELSE LET m == CHOOSE u \in S : \A v \in S \ {u} : UrlLess(u, v)
         IN  <<m>> \o Sorted(S \ {m})

----------------------------------------------------------------------------
(* monitor.py *)

\* the hrefs of the <a> tags of the body served for url; a URL that is no page
\* is answered by an error page without links
PageHrefs(url) == IF url \in Pages THEN site[url] ELSE {}

\* discover_links: the link set returned for url when the fetch succeeded
LinksOf(hrefs, base_url) ==
    {u \in {StripFragmentQuery(urljoin(base_url, h)) : h \in hrefs} :
        StartsWith(u, base_url)}

\* links harvested whether or not the request raised
discover_links_anyway(url, base_url, ok) == LinksOf(PageHrefs(url), base_url)

discover_links(url, base_url, ok) ==
    IF ok THEN LinksOf(PageHrefs(url), base_url) ELSE {}

\* a file on disk: absent, torn (opened for writing and not yet rewritten: no
\* valid JSON) or holding a value
Absent == [state |-> "absent", value |-> <<>>]
Torn == [state |-> "torn", value |-> <<>>]
Holding(v) == [state |-> "ok", value |-> v]

\* a loader that never finds a stored map
load_hashes_nothing == EmptyMap

\* load_hashes
load_hashes == IF hashFile.state = "ok" THEN hashFile.value ELSE EmptyMap

\* get_page_content_and_hash: <<content, digest>>, or <<None, None>>; a URL
\* that is no page fails raise_for_status
get_page_content_and_hash(url, ok) ==
    IF ok /\ url \in Pages
    THEN <<content[url], Sha256(content[url])>>
    ELSE <<None, None>>

\* str.lstrip('/') on a path held as its segments: the leading empty segments
\* go; <<>> and <<"">> both stand for the empty string
RECURSIVE LStripSlash(_)
LStripSlash(p) ==
    IF Len(p) > 1 /\ Head(p) = "" THEN LStripSlash(Tail(p)) ELSE p

\* the segments that hold a "."
DottedSegs == {"a.html", "b.html", "c.html", "x.html", "index.html", "guide.html", "v1.2"}

HasDot(seg) == seg \in DottedSegs

\* save_html_file, lines 69-74: relative_path, for a base_url whose path ends
\* in "/" (its last segment is empty, so the prefix test falls on whole
\* segments)
RelativePath(url, base_url) ==
    LET full == LStripSlash(url.path)
        base == LStripSlash(base_url.path)
    IN  IF Len(full) >= Len(base) /\ SubSeq(full, 1, Len(base) - 1) = Front(base)
        THEN LStripSlash(SubSeq(full, Len(base), Len(full)))
        ELSE full

\* a mapping that keeps the part of the path the base URL covers
LocalPathWhole(url, base_dir, base_url) ==
    LET rel  == LStripSlash(url.path)
        name == IF rel = <<>> \/ Last(rel) = "" THEN "index.html"
                ELSE IF HasDot(Last(rel)) THEN Last(rel)
                ELSE Last(rel) \o ".html"
    IN  <<base_dir>> \o (IF rel = <<>> THEN <<>> ELSE Front(rel)) \o <<name>>

\* save_html_file, lines 77-86: file_path
LocalPath(url, base_dir, base_url) ==
    LET rel  == RelativePath(url, base_url)
        name == IF rel = <<>> \/ Last(rel) = "" THEN "index.html"
                ELSE IF HasDot(Last(rel)) THEN Last(rel)
                ELSE Last(rel) \o ".html"
    IN  <<base_dir>> \o (IF rel = <<>> THEN <<>> ELSE Front(rel)) \o <<name>>

\* save_html_file: the directory tree after the call
save_html_file(dir, c, url, base_dir, base_url) ==
    IF c = "" THEN dir
    ELSE Put(dir, LocalPath(url, base_dir, base_url), c)

MonFresh ==
    /\ to_crawl = {BASE_URL}
    /\ crawled = {}
    /\ all_links = {}
    /\ discoverCount = EmptyMap
    /\ discoverFailed = {}
    /\ previous_hashes = EmptyMap
    /\ current_hashes = EmptyMap
    /\ updated_or_new_urls = <<>>
    /\ checkQueue = <<>>
    /\ checkFailed = {}
    /\ hashWrites = 0

\* the locals of main before its first statement has run
MonReset ==
    /\ to_crawl' = {BASE_URL}
    /\ crawled' = {}
    /\ all_links' = {}
    /\ discoverCount' = EmptyMap
    /\ discoverFailed' = {}
    /\ previous_hashes' = EmptyMap
    /\ current_hashes' = EmptyMap
    /\ updated_or_new_urls' = <<>>
    /\ checkQueue' = <<>>
    /\ checkFailed' = {}
    /\ hashWrites' = 0

\* history of the run before: whether it reached the end, the URLs it
\* discovered, the bodies upstream, the URLs it fetched, the store it left,
\* and the URLs the run before that one fetched
NoPrevRun == [completed |-> FALSE, links |-> {}, content |-> <<>>, ok |-> {},
              store |-> Absent, okBefore |-> {}]

MonInit ==
    /\ site \in Sites
    /\ content = [p \in Pages |-> "v1"]
    /\ mpc = "discover"
    /\ run = 1
    /\ MonFresh
    /\ hashFile = Absent
    /\ updateLog = <<>>
    /\ sourceDir = EmptyMap
    /\ prevRun = NoPrevRun

\* main, lines 107-117: one iteration of the discovery loop on a URL already
\* crawled
DiscoverSkip ==
    /\ mpc = "discover"
    /\ \E current_url \in to_crawl :
         /\ current_url \in crawled
         /\ to_crawl' = to_crawl \ {current_url}
    /\ UNCHANGED <<site, content, mpc, run, crawled, all_links, discoverCount,
                   discoverFailed, hashFile, previous_hashes, current_hashes,
                   updated_or_new_urls, updateLog, checkQueue, checkFailed,
                   sourceDir, hashWrites, prevRun>>
    /\ UNCHANGED <<trVars, codecVars, pathVars, soupVars>>

\* an iteration that lacks the test of line 109
DiscoverPageAgain ==
    /\ mpc = "discover"
    /\ \E current_url \in to_crawl, ok \in BOOLEAN :
         /\ LET new_links == discover_links(current_url, BASE_URL, ok)
            IN  /\ to_crawl' = (to_crawl \ {current_url}) \cup (new_links \ crawled)
                /\ all_links' = all_links \cup new_links
                /\ crawled' = crawled \cup {current_url}
         /\ discoverCount' = Put(discoverCount, current_url,
                                 Calls(discoverCount, current_url) + 1)
         /\ discoverFailed' = IF ok THEN discoverFailed
                              ELSE discoverFailed \cup {current_url}
    /\ UNCHANGED <<site, content, mpc, run, hashFile, previous_hashes,
                   current_hashes, updated_or_new_urls, updateLog, checkQueue,
                   checkFailed, sourceDir, hashWrites, prevRun>>
    /\ UNCHANGED <<trVars, codecVars, pathVars, soupVars>>

\* main, lines 107-117: one iteration of the discovery loop on a new URL
DiscoverPage ==
    /\ mpc = "discover"
    /\ \E current_url \in to_crawl, ok \in BOOLEAN :
         /\ current_url \notin crawled
         /\ LET new_links == discover_links(current_url, BASE_URL, ok)
            IN  /\ to_crawl' = (to_crawl \ {current_url}) \cup (new_links \ crawled)
                /\ all_links' = all_links \cup new_links
                /\ crawled' = crawled \cup {current_url}
         /\ discoverCount' = Put(discoverCount, current_url,
                                 Calls(discoverCount, current_url) + 1)
         /\ discoverFailed' = IF ok THEN discoverFailed
                              ELSE discoverFailed \cup {current_url}
    /\ UNCHANGED <<site, content, mpc, run, hashFile, previous_hashes,
                   current_hashes, updated_or_new_urls, updateLog, checkQueue,
                   checkFailed, sourceDir, hashWrites, prevRun>>
    /\ UNCHANGED <<trVars, codecVars, pathVars, soupVars>>

\* main, lines 119-128: the worklist is empty; load the fingerprints, open the log
StartCheck ==
    /\ mpc = "discover"
    /\ to_crawl = {}
    /\ previous_hashes' = load_hashes
    /\ current_hashes' = EmptyMap
    /\ updated_or_new_urls' = <<>>
    /\ updateLog' = <<>>
    /\ checkQueue' = Sorted(all_links)
    /\ mpc' = "check"
    /\ UNCHANGED <<site, content, run, to_crawl, crawled, all_links, discoverCount,
                   discoverFailed, hashFile, checkFailed, sourceDir, hashWrites,
                   prevRun>>
    /\ UNCHANGED <<trVars, codecVars, pathVars, soupVars>>

\* main, lines 129-142: one iteration of the check loop
CheckPage ==
    /\ mpc = "check"
    /\ checkQueue # <<>>
    /\ \E ok \in BOOLEAN :
         LET url      == Head(checkQueue)
             got      == get_page_content_and_hash(url, ok)
             body     == got[1]
             new_hash == got[2]
         IN  IF new_hash = None
             THEN /\ checkFailed' = checkFailed \cup {url}
                  /\ UNCHANGED <<current_hashes, updated_or_new_urls, updateLog,
                                 sourceDir>>
             ELSE /\ current_hashes' = Put(current_hashes, url, new_hash)
                  /\ checkFailed' = checkFailed
                  /\ IF Get(previous_hashes, url) # new_hash
                     THEN /\ updated_or_new_urls' = Append(updated_or_new_urls, url)
                          /\ updateLog' = Append(updateLog, url)
                          /\ sourceDir' = save_html_file(sourceDir, body, url,
                                                         "source_html", BASE_URL)
                     ELSE UNCHANGED <<updated_or_new_urls, updateLog, sourceDir>>
    /\ checkQueue' = Tail(checkQueue)
    /\ UNCHANGED <<site, content, mpc, run, to_crawl, crawled, all_links,
                   discoverCount, discoverFailed, hashFile, previous_hashes,
                   hashWrites, prevRun>>
    /\ UNCHANGED <<trVars, codecVars, pathVars, soupVars>>

\* save_hashes, line 30: open(HASH_FILE, 'w') truncates the file
SaveHashesOpen ==
    /\ mpc = "check"
    /\ checkQueue = <<>>
    /\ hashFile' = Torn
    /\ hashWrites' = hashWrites + 1
    /\ mpc' = "save"
    /\ UNCHANGED <<site, content, run, to_crawl, crawled, all_links, discoverCount,
                   discoverFailed, previous_hashes, current_hashes,
                   updated_or_new_urls, updateLog, checkQueue, checkFailed,
                   sourceDir, prevRun>>
    /\ UNCHANGED <<trVars, codecVars, pathVars, soupVars>>

\* the dict with the items of d, then those of e
Update(d, e) == [x \in (DOMAIN d) \cup (DOMAIN e) |-> IF x \in DOMAIN e THEN e[x] ELSE d[x]]

\* a store that keeps the entries of the previous map
SavedHashesCarried == Update(previous_hashes, current_hashes)

\* main, line 153: the map handed to save_hashes
SavedHashes == current_hashes

\* save_hashes, line 31: json.dump and close
SaveHashesDump ==
    /\ mpc = "save"
    /\ hashFile' = Holding(SavedHashes)
    /\ mpc' = "done"
    /\ UNCHANGED <<site, content, run, to_crawl, crawled, all_links, discoverCount,
                   discoverFailed, previous_hashes, current_hashes,
                   updated_or_new_urls, updateLog, checkQueue, checkFailed,
                   sourceDir, hashWrites, prevRun>>
    /\ UNCHANGED <<trVars, codecVars, pathVars, soupVars>>

\* the process is killed before main returns
MonInterrupt ==
    /\ mpc \in {"discover", "check", "save"}
    /\ mpc' = IF mpc = "save" THEN "stopped_in_save" ELSE "stopped"
    /\ MonReset
    /\ UNCHANGED <<site, content, run, hashFile, updateLog, sourceDir, prevRun>>
    /\ UNCHANGED <<trVars, codecVars, pathVars, soupVars>>

\* the bodies upstream at the next run: the same, or one page edited
NextContents == {content} \cup {[content EXCEPT ![p] = c] : p \in {PA}, c \in Contents}

\* the script is started again, lines 93-104
MonNewRun ==
    /\ mpc \in {"done", "stopped", "stopped_in_save"}
    /\ run < MaxRuns
    /\ run' = run + 1
    /\ prevRun' = [completed |-> mpc = "done", links |-> all_links,
                   content |-> content, ok |-> DOMAIN current_hashes,
                   store |-> hashFile, okBefore |-> prevRun.ok]
    /\ content' \in NextContents
    /\ mpc' = "discover"
    /\ MonReset
    /\ UNCHANGED <<site, hashFile, updateLog, sourceDir>>
    /\ UNCHANGED <<trVars, codecVars, pathVars, soupVars>>

\* the script is started again after a run that reached its end, lines 93-104,
\* with the upstream bodies as they were
MonRerun ==
    /\ mpc = "done"
    /\ run < MaxSameRuns
    /\ run' = run + 1
    /\ prevRun' = [completed |-> TRUE, links |-> all_links,
                   content |-> content, ok |-> DOMAIN current_hashes,
                   store |-> hashFile, okBefore |-> prevRun.ok]
    /\ mpc' = "discover"
    /\ MonReset
    /\ UNCHANGED <<site, content, hashFile, updateLog, sourceDir>>
    /\ UNCHANGED <<trVars, codecVars, pathVars, soupVars>>

MonNext ==
    \/ DiscoverSkip
    \/ DiscoverPage
    \/ StartCheck
    \/ CheckPage
    \/ SaveHashesOpen
    \/ SaveHashesDump
    \/ MonInterrupt
    \/ MonNewRun

\* runs of the monitor that reach their end, over an upstream that stays as it is
SameNext ==
    \/ DiscoverSkip
    \/ DiscoverPage
    \/ StartCheck
    \/ CheckPage
    \/ SaveHashesOpen
    \/ SaveHashesDump
    \/ MonRerun

----------------------------------------------------------------------------
(* Texts: a text is the sequence of its characters.  The model's alphabet   *)
(* holds one symbol for each piece of text the code tells apart: words of   *)
(* letters, digits, the blank, the type annotation " (C function)" without  *)
(* its leading blank, and the pieces of the notranslate markup.             *)

SpanOpen  == <<"<", "span", " class=\"notranslate\">">>
SpanClose == <<"</", "span", ">">>

\* [a-zA-Z_] followed by word characters only
LetterSyms == {"a", "b", "init", "rtos", "span", "term", "ka_a", "ka_b", "ka_rtos", "KA"}
DigitSyms == {"0", "1", "2", "3"}
\* \w
IsWord(c) == c \in LetterSyms \cup DigitSyms
\* [a-zA-Z_]
IsIdStart(c) == c \in LetterSyms
\* [a-zA-Z0-9_.:]
IsIdChar(c) == c \in LetterSyms \cup DigitSyms
\* \s
IsSpace(c) == c = " "
\* \(C(?:\+\+)?\s(?:macro|function|class|member|enumerator|type)\)
IsTypeInfo(c) == c \in {"(C function)", "(C++ class)"}

\* str(i) for the indices the model uses
Str(i) == CASE i = 0 -> <<"0">> [] i = 1 -> <<"1">> [] i = 2 -> <<"2">> [] OTHER -> <<"3">>

\* sub in text
Contains(text, sub) ==
    \E i \in 0..(Len(text) - Len(sub)) : SubSeq(text, i + 1, i + Len(sub)) = sub

\* text.find(sub): the first position (from 0) where sub occurs, or -1
Find(text, sub) ==
    IF Contains(text, sub)
    THEN CHOOSE i \in 0..(Len(text) - Len(sub)) :
            /\ SubSeq(text, i + 1, i + Len(sub)) = sub
            /\ \A j \in 0..(i - 1) : SubSeq(text, j + 1, j + Len(sub)) # sub
    ELSE -1

\* text.replace(old, new): every occurrence of old, leftmost first and not
\* overlapping; an empty old matches before every character and at the end
RECURSIVE Replace(_, _, _)
Replace(text, old, new) ==
    IF old = <<>>
    THEN IF text = <<>> THEN new
         ELSE new \o <<Head(text)>> \o Replace(Tail(text), old, new)
    ELSE LET i == Find(text, old)
         IN  IF i < 0 THEN text
             ELSE SubSeq(text, 1, i) \o new
                  \o Replace(SubSeq(text, i + Len(old) + 1, Len(text)), old, new)

\* f"<span class=\"notranslate\">term{i}</span>"
Placeholder(i) == SpanOpen \o <<"term">> \o Str(i) \o SpanClose

\* protect_terminology: <<text, placeholders>>, the terminology being the
\* sequence of the dict's items and placeholders the sequence of the items added
RECURSIVE ProtectFrom(_, _, _, _)
ProtectFrom(text, terms, i, placeholders) ==
    IF i >= Len(terms) THEN <<text, placeholders>>
    ELSE LET en_term == terms[i + 1][1]
             ka_term == terms[i + 1][2]
             placeholder == Placeholder(i)
         IN  IF Contains(text, en_term)
             THEN ProtectFrom(Replace(text, en_term, placeholder), terms, i + 1,
                              Append(placeholders, <<placeholder, ka_term>>))
             ELSE ProtectFrom(text, terms, i + 1, placeholders)

protect_terminology(text, terms) == ProtectFrom(text, terms, 0, <<>>)

\* unprotect_terminology
RECURSIVE unprotect_terminology(_, _)
unprotect_terminology(text, placeholders) ==
    IF placeholders = <<>> THEN text
    ELSE unprotect_terminology(Replace(text, Head(placeholders)[1], Head(placeholders)[2]),
                               Tail(placeholders))

\* the end of the run of [a-zA-Z0-9_.:] that starts at position i
RECURSIVE IdEnd(_, _)
IdEnd(text, i) ==
    IF i < Len(text) /\ IsIdChar(text[i + 1]) THEN IdEnd(text, i + 1) ELSE i

\* the end of the run of \s that starts after position i
RECURSIVE SpaceEnd(_, _)
SpaceEnd(text, i) ==
    IF i < Len(text) /\ IsSpace(text[i + 1]) THEN SpaceEnd(text, i + 1) ELSE i

\* the pattern of protect_code_identifiers matches at position i: an identifier
\* that starts at a word boundary, then blanks, then the type annotation
MatchesAt(text, i) ==
    LET e == IdEnd(text, i)
        t == SpaceEnd(text, e) + 1
    IN  /\ IsIdStart(text[i])
        /\ (i = 1 \/ ~IsWord(text[i - 1]))
        /\ IsWord(text[e])
        /\ t <= Len(text)
        /\ IsTypeInfo(text[t])

\* protect_code_identifiers: pattern.sub(repl, text) from position i on
RECURSIVE SubFrom(_, _)
SubFrom(text, i) ==
    IF \A p \in i..Len(text) : ~MatchesAt(text, p)
    THEN SubSeq(text, i, Len(text))
    ELSE LET p == CHOOSE p \in i..Len(text) :
                     MatchesAt(text, p) /\ \A q \in i..(p - 1) : ~MatchesAt(text, q)
             e == IdEnd(text, p)
             t == SpaceEnd(text, e) + 1
         IN  SubSeq(text, i, p - 1)
             \o SpanOpen \o SubSeq(text, p, e) \o SpanClose \o SubSeq(text, e + 1, t)
             \o SubFrom(text, t + 1)

protect_code_identifiers(text) == SubFrom(text, 1)

\* translate_batch_with_retry, lines 138-145, for one text: <<protected_text,
\* placeholders>>
ProtectText(text, terms) ==
    protect_terminology(protect_code_identifiers(text), terms)

----------------------------------------------------------------------------
(* translate.py *)

\* translate.py:28, scaled to the size of the model's documents
CHAR_LIMIT_PER_MONTH == 12

\* translate.py:244, scaled to the size of the model's documents
BATCH_SIZE == 2

\* translate.py:147
max_retries == 3

\* a delay that does not grow with the attempt
BackoffFlat(k) == 5

\* translate_batch_with_retry, line 170: the seconds slept after attempt k
\* (counted from 0) has failed
Backoff(k) == 5 * (k + 1)

TRANSLATABLE_TAGS == {"p", "h1", "h2", "h3", "h4", "h5", "h6", "li", "a", "span", "strong",
                      "em", "td", "th", "figcaption", "blockquote", "title"}

EXCLUDED_TAGS == {"code", "pre", "script", "style", "kbd"}

\* a text node of a parsed document: the tags of its ancestors, the parent
\* first, and its text
Node(anc, text) == [kind |-> "text", anc |-> anc, text |-> text]

\* a comment of a parsed document: bs4 holds it as a Comment, a subclass of
\* NavigableString, and find_all(string=True) returns it with the text nodes
CommentNode(anc, text) == [kind |-> "comment", anc |-> anc, text |-> text]

\* node.strip()
RECURSIVE LStrip(_)
LStrip(text) == IF text # <<>> /\ IsSpace(Head(text)) THEN LStrip(Tail(text)) ELSE text

RECURSIVE RStrip(_)
RStrip(text) == IF text # <<>> /\ IsSpace(Last(text)) THEN RStrip(Front(text)) ELSE text

Strip(text) == RStrip(LStrip(text))

\* translate_soup_content, lines 250-253: the test on one text node
IsTranslatable(node) ==
    /\ node.anc # <<>>
    /\ node.anc[1] \in TRANSLATABLE_TAGS
    /\ \A j \in 1..Len(node.anc) : node.anc[j] \notin EXCLUDED_TAGS
    /\ Strip(node.text) # <<>>

\* translate_soup_content, lines 247-254: translatable_nodes, as positions in
\* soup.find_all(string=True)
RECURSIVE TranslatableFrom(_, _)
TranslatableFrom(doc, n) ==
    IF n > Len(doc) THEN <<>>
    ELSE (IF IsTranslatable(doc[n]) THEN <<n>> ELSE <<>>) \o TranslatableFrom(doc, n + 1)

TranslatableNodes(doc) == TranslatableFrom(doc, 1)

\* the provider's translation of one symbol
Ka(c) == CASE c = "a" -> "ka_a" [] c = "b" -> "ka_b" [] c = "rtos" -> "ka_rtos"
           [] OTHER -> c

\* position i of text lies inside a notranslate span
InsideSpan(text, i) ==
    \E j \in 1..(i - 1) :
        /\ text[j] = SpanOpen[3]
        /\ \A k \in (j + 1)..(i - 1) : text[k] # SpanClose[1]

\* client.translate(..., format_='html') on one text: the text translated,
\* the markup and the content of notranslate spans left as they are
Translate(text) ==
    [i \in 1..Len(text) |->
        IF InsideSpan(text, i) \/ text[i] = "span" THEN text[i] ELSE Ka(text[i])]

\* len(protected_text)
CharLen(text) == Len(text)

RECURSIVE Sum(_)
Sum(s) == IF s = <<>> THEN 0 ELSE Head(s) + Sum(Tail(s))

\* translate_batch_with_retry, lines 158-163, for one text
FinalText(text, terms) ==
    LET p == ProtectText(text, terms)
    IN  unprotect_terminology(Translate(p[1]), p[2])

\* translate_batch_with_retry, lines 137-145: total_char_count
TotalCharCount(texts, terms) ==
    Sum([j \in 1..Len(texts) |-> CharLen(ProtectText(texts[j], terms)[1])])

\* a return that counts the characters of a batch that fell back
BatchReturnCounted(texts, terms, answered) ==
    <<IF answered THEN [j \in 1..Len(texts) |-> FinalText(texts[j], terms)] ELSE texts,
      TotalCharCount(texts, terms)>>

\* translate_batch_with_retry: what it returns when the provider answered, and
\* when every attempt raised a GoogleAPICallError
BatchReturn(texts, terms, answered) ==
    IF answered
    THEN <<[j \in 1..Len(texts) |-> FinalText(texts[j], terms)], TotalCharCount(texts, terms)>>
    ELSE <<texts, 0>>

\* translate_soup_content, lines 258-259
BatchNodes(translatable_nodes, i) ==
    SubSeq(translatable_nodes, i + 1,
           IF i + BATCH_SIZE < Len(translatable_nodes) THEN i + BATCH_SIZE
           ELSE Len(translatable_nodes))

OriginalTexts(doc, batch_nodes) == [j \in 1..Len(batch_nodes) |-> doc[batch_nodes[j]].text]

\* a write-back that gives each node of a batch its neighbour's result
WriteBackShifted(doc, batch_nodes, translated_texts) ==
    [n \in 1..Len(doc) |->
        IF \E j \in 1..Len(batch_nodes) : batch_nodes[j] = n
        THEN LET j == CHOOSE j \in 1..Len(batch_nodes) : batch_nodes[j] = n
             IN  Node(doc[n].anc, translated_texts[(j % Len(batch_nodes)) + 1])
        ELSE doc[n]]

\* translate_soup_content, lines 269-270: node.replace_with(NavigableString(...))
WriteBack(doc, batch_nodes, translated_texts) ==
    [n \in 1..Len(doc) |->
        IF \E j \in 1..Len(batch_nodes) : batch_nodes[j] = n
        THEN LET j == CHOOSE j \in 1..Len(batch_nodes) : batch_nodes[j] = n
             IN  Node(doc[n].anc, translated_texts[j])
        ELSE doc[n]]

\* load_processed_files
load_processed_files == IF stateFile.state = "ok" THEN stateFile.value ELSE {}

\* get_html_files(SOURCE_DIR), in the order os.walk lists them
all_html_files == <<"f1.html", "f2.html">>

AllFiles == Range(all_html_files)

\* main, line 307
FilesToProcess(processed) ==
    LET Keep(f) == f \notin processed IN SelectSeq(all_html_files, Keep)

TextA    == <<"a">>
TextRtos == <<"rtos", " ", "b">>
TextInit == <<"init", " ", "(C function)">>
TextBA   == <<"b", " ", "a">>

Doc1 == << Node(<<"h1", "body">>, TextA),
           Node(<<"code", "p", "body">>, <<"b">>),
           Node(<<"li", "ul", "body">>, TextRtos),
           Node(<<"p", "body">>, <<" ">>),
           Node(<<"td", "tr", "table">>, TextInit) >>

Doc2 == << Node(<<"div", "body">>, <<"a">>),
           Node(<<"p", "div">>, TextBA),
           Node(<<"script", "body">>, TextA),
           Node(<<"span", "p">>, <<"b">>),
           Node(<<"em", "p">>, TextA) >>

Corpus == [f \in AllFiles |-> IF f = "f1.html" THEN Doc1 ELSE Doc2]

Terminologies == { << <<<<"rtos">>, <<"KA">>>> >> }

NoPrior == [interrupted |-> FALSE, completed |-> {}]

TrReset ==
    /\ processed_files' = {}
    /\ todo' = <<>>
    /\ soup' = <<>>
    /\ nodes' = <<>>
    /\ bi' = 0
    /\ attempt' = 0
    /\ calls' = 0
    /\ waits' = <<>>
    /\ tracker' = 0
    /\ runLog' = <<>>
    /\ attempted' = {}
    /\ failed' = {}

TrInit ==
    /\ docs = Corpus
    /\ terminology \in Terminologies
    /\ stateFile = Absent
    /\ translatedDir = EmptyMap
    /\ tpc = "init"
    /\ trun = 1
    /\ processed_files = {}
    /\ todo = <<>>
    /\ soup = <<>>
    /\ nodes = <<>>
    /\ bi = 0
    /\ attempt = 0
    /\ calls = 0
    /\ waits = <<>>
    /\ tracker = 0
    /\ runLog = <<>>
    /\ attempted = {}
    /\ failed = {}
    /\ completed = {}
    /\ prior = NoPrior

\* main, lines 296-298: the client cannot be initialized
TrClientFails ==
    /\ tpc = "init"
    /\ tpc' = "aborted"
    /\ UNCHANGED <<calls, waits, docs, terminology, stateFile, translatedDir, trun, processed_files,
                   todo, soup, nodes, bi, attempt, tracker, runLog, attempted, failed,
                   completed, prior>>
    /\ UNCHANGED <<monVars, codecVars, pathVars, soupVars>>

\* main, lines 296-313
TrStart ==
    /\ tpc = "init"
    /\ processed_files' = load_processed_files
    /\ todo' = FilesToProcess(load_processed_files)
    /\ tpc' = IF FilesToProcess(load_processed_files) = <<>> THEN "done" ELSE "loop"
    /\ UNCHANGED <<calls, waits, docs, terminology, stateFile, translatedDir, trun, soup, nodes, bi,
                   attempt, tracker, runLog, attempted, failed, completed, prior>>
    /\ UNCHANGED <<monVars, codecVars, pathVars, soupVars>>

\* main, line 318: the loop over files_to_process has ended
TrLoopEnd ==
    /\ tpc = "loop"
    /\ todo = <<>>
    /\ tpc' = "done"
    /\ UNCHANGED <<calls, waits, docs, terminology, stateFile, translatedDir, trun, processed_files,
                   todo, soup, nodes, bi, attempt, tracker, runLog, attempted, failed,
                   completed, prior>>
    /\ UNCHANGED <<monVars, codecVars, pathVars, soupVars>>

\* main, lines 323-326: the character limit is reached
TrLimitBreak ==
    /\ tpc = "loop"
    /\ todo # <<>>
    /\ tracker >= CHAR_LIMIT_PER_MONTH
    /\ tpc' = "done"
    /\ UNCHANGED <<calls, waits, docs, terminology, stateFile, translatedDir, trun, processed_files,
                   todo, soup, nodes, bi, attempt, tracker, runLog, attempted, failed,
                   completed, prior>>
    /\ UNCHANGED <<monVars, codecVars, pathVars, soupVars>>

\* main, lines 329-331 and translate_soup_content, lines 247-254
TrReadFile ==
    /\ tpc = "loop"
    /\ todo # <<>>
    /\ tracker < CHAR_LIMIT_PER_MONTH
    /\ attempted' = attempted \cup {Head(todo)}
    /\ \E ok \in BOOLEAN :
         IF ok
         THEN /\ soup' = docs[Head(todo)]
              /\ nodes' = TranslatableNodes(docs[Head(todo)])
              /\ bi' = 0
              /\ tpc' = "batch"
              /\ UNCHANGED <<todo, failed>>
         ELSE /\ failed' = failed \cup {Head(todo)}
              /\ todo' = Tail(todo)
              /\ UNCHANGED <<soup, nodes, bi, tpc>>
    /\ UNCHANGED <<calls, waits, docs, terminology, stateFile, translatedDir, trun, processed_files,
                   attempt, tracker, runLog, completed, prior>>
    /\ UNCHANGED <<monVars, codecVars, pathVars, soupVars>>

\* translate_soup_content, lines 257 and 272: every batch is done
TrBatchesDone ==
    /\ tpc = "batch"
    /\ bi >= Len(nodes)
    /\ tpc' = "write"
    /\ UNCHANGED <<calls, waits, docs, terminology, stateFile, translatedDir, trun, processed_files,
                   todo, soup, nodes, bi, attempt, tracker, runLog, attempted, failed,
                   completed, prior>>
    /\ UNCHANGED <<monVars, codecVars, pathVars, soupVars>>

\* translate_soup_content, lines 261-262: the character limit is reached
TrBatchBreak ==
    /\ tpc = "batch"
    /\ bi < Len(nodes)
    /\ tracker >= CHAR_LIMIT_PER_MONTH
    /\ tpc' = "write"
    /\ UNCHANGED <<calls, waits, docs, terminology, stateFile, translatedDir, trun, processed_files,
                   todo, soup, nodes, bi, attempt, tracker, runLog, attempted, failed,
                   completed, prior>>
    /\ UNCHANGED <<monVars, codecVars, pathVars, soupVars>>

\* a batch submitted whatever the counter holds
TrBatchBeginAnyway ==
    /\ tpc = "batch"
    /\ bi < Len(nodes)
    /\ attempt' = 0
    /\ calls' = 0
    /\ waits' = <<>>
    /\ tpc' = "call"
    /\ UNCHANGED <<docs, terminology, stateFile, translatedDir, trun, processed_files,
                   todo, soup, nodes, bi, tracker, runLog, attempted, failed, completed, prior>>
    /\ UNCHANGED <<monVars, codecVars, pathVars, soupVars>>

\* translate_soup_content, line 264, and translate_batch_with_retry, lines 131-148
TrBatchBegin ==
    /\ tpc = "batch"
    /\ bi < Len(nodes)
    /\ tracker < CHAR_LIMIT_PER_MONTH
    /\ attempt' = 0
    /\ calls' = 0
    /\ waits' = <<>>
    /\ tpc' = "call"
    /\ UNCHANGED <<docs, terminology, stateFile, translatedDir, trun, processed_files,
                   todo, soup, nodes, bi, tracker, runLog, attempted, failed, completed, prior>>
    /\ UNCHANGED <<monVars, codecVars, pathVars, soupVars>>

\* translate_soup_content, lines 264-270, once translate_batch_with_retry returned
BatchApplied(answered) ==
    \E batch_nodes \in {BatchNodes(nodes, bi)} :
      \E ret \in {BatchReturn(OriginalTexts(soup, batch_nodes), terminology, answered)} :
        /\ tracker' = tracker + ret[2]
        /\ soup' = WriteBack(soup, batch_nodes, ret[1])
        /\ runLog' = Append(runLog, [file |-> Head(todo), start |-> bi,
                                    outcome |-> IF answered THEN "ok" ELSE "fallback"])
        /\ bi' = bi + BATCH_SIZE
        /\ tpc' = "batch"

\* translate_batch_with_retry, lines 149-165: the provider answers
TrCallOk ==
    /\ tpc = "call"
    /\ calls' = calls + 1
    /\ waits' = waits
    /\ BatchApplied(TRUE)
    /\ UNCHANGED <<docs, terminology, stateFile, translatedDir, trun, processed_files,
                   todo, nodes, attempt, attempted, failed, completed, prior>>
    /\ UNCHANGED <<monVars, codecVars, pathVars, soupVars>>

\* translate_batch_with_retry, lines 167-174: the provider raises a
\* GoogleAPICallError; after the last attempt the original texts are returned
TrCallTransient ==
    /\ tpc = "call"
    /\ attempt' = attempt + 1
    /\ calls' = calls + 1
    /\ waits' = Append(waits, Backoff(attempt))
    /\ IF attempt + 1 < max_retries
       THEN UNCHANGED <<tracker, soup, runLog, bi, tpc>>
       ELSE BatchApplied(FALSE)
    /\ UNCHANGED <<docs, terminology, stateFile, translatedDir, trun, processed_files,
                   todo, nodes, attempted, failed, completed, prior>>
    /\ UNCHANGED <<monVars, codecVars, pathVars, soupVars>>

\* translate_soup_content, lines 273-275, and main, lines 343-345: the provider
\* raises another exception
TrCallRaises ==
    /\ tpc = "call"
    /\ calls' = calls + 1
    /\ waits' = waits
    /\ failed' = failed \cup {Head(todo)}
    /\ todo' = Tail(todo)
    /\ tpc' = "loop"
    /\ UNCHANGED <<docs, terminology, stateFile, translatedDir, trun, processed_files,
                   soup, nodes, bi, attempt, tracker, runLog, attempted, completed, prior>>
    /\ UNCHANGED <<monVars, codecVars, pathVars, soupVars>>

\* write_translated_file, and main, line 350
TrWriteFile ==
    /\ tpc = "write"
    /\ \E ok \in BOOLEAN :
         IF ok
         THEN translatedDir' = Put(translatedDir, Head(todo), soup) /\ failed' = failed
         ELSE translatedDir' = translatedDir /\ failed' = failed \cup {Head(todo)}
    /\ tpc' = "mark"
    /\ UNCHANGED <<calls, waits, docs, terminology, stateFile, trun, processed_files, todo, soup,
                   nodes, bi, attempt, tracker, runLog, attempted, completed, prior>>
    /\ UNCHANGED <<monVars, codecVars, pathVars, soupVars>>

\* main, line 354, and save_processed_files, line 69: open(state_file, 'w')
\* truncates the file
TrMarkProcessed ==
    /\ tpc = "mark"
    /\ processed_files' = processed_files \cup {Head(todo)}
    /\ stateFile' = Torn
    /\ tpc' = "save"
    /\ UNCHANGED <<calls, waits, docs, terminology, translatedDir, trun, todo, soup, nodes, bi,
                   attempt, tracker, runLog, attempted, failed, completed, prior>>
    /\ UNCHANGED <<monVars, codecVars, pathVars, soupVars>>

\* save_processed_files, line 70: json.dump and close; main, lines 356-358
TrSaveDump ==
    /\ tpc = "save"
    /\ stateFile' = Holding(processed_files)
    /\ completed' = completed \cup {Head(todo)}
    /\ todo' = Tail(todo)
    /\ tpc' = "loop"
    /\ UNCHANGED <<calls, waits, docs, terminology, translatedDir, trun, processed_files, soup, nodes,
                   bi, attempt, tracker, runLog, attempted, failed, prior>>
    /\ UNCHANGED <<monVars, codecVars, pathVars, soupVars>>

\* the process is killed before main returns
TrInterrupt ==
    /\ tpc \notin {"done", "aborted", "stopped"}
    /\ tpc' = "stopped"
    /\ TrReset
    /\ UNCHANGED <<docs, terminology, stateFile, translatedDir, trun, completed, prior>>
    /\ UNCHANGED <<monVars, codecVars, pathVars, soupVars>>

\* the script is started again
TrNewRun ==
    /\ tpc \in {"done", "aborted", "stopped"}
    /\ trun < MaxTrRuns
    /\ trun' = trun + 1
    /\ tpc' = "init"
    /\ prior' = [interrupted |-> tpc = "stopped", completed |-> completed]
    /\ TrReset
    /\ UNCHANGED <<docs, terminology, stateFile, translatedDir, completed>>
    /\ UNCHANGED <<monVars, codecVars, pathVars, soupVars>>

TrProgram ==
    \/ TrClientFails
    \/ TrStart
    \/ TrLoopEnd
    \/ TrLimitBreak
    \/ TrReadFile
    \/ TrBatchesDone
    \/ TrBatchBreak
    \/ TrBatchBegin
    \/ TrCallRaises
    \/ TrCallTransient
    \/ TrCallOk
    \/ TrWriteFile
    \/ TrMarkProcessed
    \/ TrSaveDump

TrNext ==
    \/ TrProgram
    \/ TrInterrupt
    \/ TrNewRun

----------------------------------------------------------------------------
(* The specifications *)

MonParked ==
    /\ site = [p \in Pages |-> {}]
    /\ content = [p \in Pages |-> "v1"]
    /\ mpc = "off"
    /\ run = 0
    /\ MonFresh
    /\ hashFile = Absent
    /\ updateLog = <<>>
    /\ sourceDir = EmptyMap
    /\ prevRun = NoPrevRun

TrParked ==
    /\ docs = Corpus
    /\ terminology = <<>>
    /\ stateFile = Absent
    /\ translatedDir = EmptyMap
    /\ tpc = "off"
    /\ trun = 0
    /\ processed_files = {}
    /\ todo = <<>>
    /\ soup = <<>>
    /\ nodes = <<>>
    /\ bi = 0
    /\ attempt = 0
    /\ calls = 0
    /\ waits = <<>>
    /\ tracker = 0
    /\ runLog = <<>>
    /\ attempted = {}
    /\ failed = {}
    /\ completed = {}
    /\ prior = NoPrior

CodecParked ==
    /\ ctext = <<>>
    /\ cdict = <<>>
    /\ cstage = "off"
    /\ ccur = <<>>
    /\ cph = <<>>
    /\ cstub = "none"

----------------------------------------------------------------------------
(* The protection codec on bounded inputs *)

CodecAlphabet == {"a", "rtos", "init", " ", "(C function)"}

RECURSIVE TextsUpTo(_)
TextsUpTo(n) ==
    IF n = 0 THEN {<<>>}
    ELSE LET shorter == TextsUpTo(n - 1)
         IN  shorter \cup {Append(t, c) : t \in {x \in shorter : Len(x) = n - 1},
                                          c \in CodecAlphabet}

CodecTexts == TextsUpTo(MaxTextLen)

CodecDicts == { <<>>,
                << <<<<"rtos">>, <<"KA">>>> >>,
                << <<<<"a">>, <<"ka_a">>>>, <<<<"a", " ", "rtos">>, <<"KA">>>> >>,
                << <<<<"init">>, <<"KA">>>>, <<<<"span">>, <<"ka_b">>>> >> }

CodecInit ==
    /\ ctext \in CodecTexts
    /\ cdict \in CodecDicts
    /\ cstage = "given"
    /\ ccur = ctext
    /\ cph = <<>>
    /\ cstub = "none"

\* translate_batch_with_retry, line 140
CodecProtectCode ==
    /\ cstage = "given"
    /\ ccur' = protect_code_identifiers(ccur)
    /\ cstage' = "code_protected"
    /\ UNCHANGED <<ctext, cdict, cph, cstub>>
    /\ UNCHANGED <<monVars, trVars, pathVars, soupVars>>

\* translate_batch_with_retry, lines 142-144
CodecProtectTerms ==
    /\ cstage = "code_protected"
    /\ ccur' = protect_terminology(ccur, cdict)[1]
    /\ cph' = protect_terminology(ccur, cdict)[2]
    /\ cstage' = "protected"
    /\ UNCHANGED <<ctext, cdict, cstub>>
    /\ UNCHANGED <<monVars, trVars, pathVars, soupVars>>

\* the translation: the identity, or the provider's
CodecTranslate ==
    /\ cstage = "protected"
    /\ \E stub \in {"identity", "provider"} :
         /\ cstub' = stub
         /\ ccur' = IF stub = "identity" THEN ccur ELSE Translate(ccur)
    /\ cstage' = "translated"
    /\ UNCHANGED <<ctext, cdict, cph>>
    /\ UNCHANGED <<monVars, trVars, pathVars, soupVars>>

\* translate_batch_with_retry, line 162
CodecRestore ==
    /\ cstage = "translated"
    /\ ccur' = unprotect_terminology(ccur, cph)
    /\ cstage' = "restored"
    /\ UNCHANGED <<ctext, cdict, cph, cstub>>
    /\ UNCHANGED <<monVars, trVars, pathVars, soupVars>>

CodecNext ==
    \/ CodecProtectCode
    \/ CodecProtectTerms
    \/ CodecTranslate
    \/ CodecRestore

----------------------------------------------------------------------------
(* save_html_file on bounded URLs *)

\* number of segments of a URL path, a trailing "/" not counted
MaxPathLen == 2

PathSegs == {"docs", "api", "guide", "a.html", "v1.2", "index.html"}

RECURSIVE PathsUpTo(_)
PathsUpTo(n) ==
    IF n = 0 THEN {<<>>}
    ELSE LET shorter == PathsUpTo(n - 1)
         IN  shorter \cup {Append(q, c) : q \in {x \in shorter : Len(x) = n - 1},
                                          c \in PathSegs}

\* the URLs given: with and without a trailing "/"
PathUrls ==
    {Url("docs", q) : q \in PathsUpTo(MaxPathLen)}
        \cup {Url("docs", Append(q, "")) : q \in PathsUpTo(MaxPathLen)}

\* the base URLs given; each path ends in "/"
PathBases == {Url("docs", <<"">>), Url("docs", <<"docs", "">>),
              Url("docs", <<"docs", "api", "">>)}

PathParked ==
    /\ hurl = BASE_URL
    /\ hbase = BASE_URL
    /\ hbody = ""
    /\ hdir = EmptyMap
    /\ hstage = "off"

PathInit ==
    /\ hurl \in PathUrls
    /\ hbase \in PathBases
    /\ hbody \in {"", "v1"}
    /\ hdir = EmptyMap
    /\ hstage = "given"

\* save_html_file(content, url, base_dir, base_url)
SaveFile ==
    /\ hstage = "given"
    /\ hdir' = save_html_file(hdir, hbody, hurl, "mirror", hbase)
    /\ hstage' = "saved"
    /\ UNCHANGED <<hurl, hbase, hbody>>
    /\ UNCHANGED <<monVars, trVars, codecVars, soupVars>>

PathNext ==
    \/ SaveFile

----------------------------------------------------------------------------
(* translate_soup_content on its own: a document is given, its nodes are    *)
(* classified, and the batches are answered by the provider.                *)

\* the ancestors a node may have, the parent first
SoupChains == { <<"p", "body">>, <<"span", "code", "p">>, <<"div", "body">>,
                <<"code", "p">> }

SoupTexts == { <<"a">>, <<" ">> }

SoupNodes == {Node(c, t) : c \in SoupChains, t \in SoupTexts}
                \cup {CommentNode(c, t) : c \in SoupChains, t \in SoupTexts}

RECURSIVE SoupsUpTo(_)
SoupsUpTo(n) ==
    IF n = 0 THEN {<<>>}
    ELSE LET shorter == SoupsUpTo(n - 1)
         IN  shorter \cup {Append(d, x) : d \in {y \in shorter : Len(y) = n - 1},
                                          x \in SoupNodes}

SoupParked ==
    /\ sdoc = <<>>
    /\ snodes = <<>>
    /\ sbi = 0
    /\ sout = <<>>
    /\ sstage = "off"

SoupInit ==
    /\ sdoc \in SoupsUpTo(MaxNodes) \ {<<>>}
    /\ snodes = <<>>
    /\ sbi = 0
    /\ sout = sdoc
    /\ sstage = "parsed"

\* translate_soup_content, lines 247-254
SoupClassify ==
    /\ sstage = "parsed"
    /\ snodes' = TranslatableNodes(sdoc)
    /\ sstage' = "classified"
    /\ UNCHANGED <<sdoc, sbi, sout>>
    /\ UNCHANGED <<monVars, trVars, codecVars, pathVars>>

\* translate_soup_content, lines 257-270: one batch that the provider answers
SoupBatch ==
    /\ sstage = "classified"
    /\ sbi < Len(snodes)
    /\ LET batch_nodes == BatchNodes(snodes, sbi)
           ret == BatchReturn(OriginalTexts(sout, batch_nodes), <<>>, TRUE)
       IN  sout' = WriteBack(sout, batch_nodes, ret[1])
    /\ sbi' = sbi + BATCH_SIZE
    /\ UNCHANGED <<sdoc, snodes, sstage>>
    /\ UNCHANGED <<monVars, trVars, codecVars, pathVars>>

\* translate_soup_content, line 272
SoupReturn ==
    /\ sstage = "classified"
    /\ sbi >= Len(snodes)
    /\ sstage' = "returned"
    /\ UNCHANGED <<sdoc, snodes, sbi, sout>>
    /\ UNCHANGED <<monVars, trVars, codecVars, pathVars>>

SoupNext ==
    \/ SoupClassify
    \/ SoupBatch
    \/ SoupReturn

InitMon == MonInit /\ TrParked /\ CodecParked /\ PathParked /\ SoupParked

InitTr == TrInit /\ MonParked /\ CodecParked /\ PathParked /\ SoupParked

InitCodec == CodecInit /\ MonParked /\ TrParked /\ PathParked /\ SoupParked

InitPath == PathInit /\ MonParked /\ TrParked /\ CodecParked /\ SoupParked

InitSoup == SoupInit /\ MonParked /\ TrParked /\ CodecParked /\ PathParked

SpecSoup == InitSoup /\ [][SoupNext]_vars

SpecPath == InitPath /\ [][PathNext]_vars

SpecMon == InitMon /\ [][MonNext]_vars

SpecSame == InitMon /\ [][SameNext]_vars

SpecTr == InitTr /\ [][TrNext]_vars

\* the run is not starved: a step of main that can be taken is taken
FairSpecTr == SpecTr /\ WF_vars(TrProgram)

SpecCodec == InitCodec /\ [][CodecNext]_vars

----------------------------------------------------------------------------
(* The site as a browser sees it: every link resolved against the page it   *)
(* is on.                                                                   *)

TrueLinks(u) ==
    {v \in {StripFragmentQuery(urljoin(u, h)) : h \in PageHrefs(u)} :
        StartsWith(v, BASE_URL)}

RECURSIVE ReachFrom(_)
ReachFrom(S) ==
    LET more == S \cup UNION {TrueLinks(u) : u \in S}
    IN  IF more = S THEN S ELSE ReachFrom(more)

TrueReach == ReachFrom({BASE_URL})

DiscoveryOver == mpc \in {"check", "save", "done"}

----------------------------------------------------------------------------
(* Claims on monitor.py, under SpecMon *)

\* C1: when the discovery loop has ended the worklist is empty and every
\* in-scope URL reachable from the seed over the site's links has been given to
\* discover_links exactly once (stated for the runs in which no fetch failed).
C1_EveryReachableOnce ==
    (DiscoveryOver /\ discoverFailed = {}) =>
        /\ to_crawl = {}
        /\ \A u \in TrueReach : Calls(discoverCount, u) = 1

\* a completed run that follows a completed run over the same discovered URLs
\* and the same upstream bodies
SecondOfSameRuns ==
    /\ mpc = "done"
    /\ run >= 2
    /\ prevRun.completed
    /\ prevRun.links = all_links
    /\ prevRun.content = content

\* C2 as stated: the second of two such runs classifies no URL as changed or
\* new, whichever fetches succeed or fail.
C2_SecondRunEmpty ==
    SecondOfSameRuns => (updated_or_new_urls = <<>> /\ updateLog = <<>>)

\* C2 as amended: the second of two such runs classifies a URL as changed or
\* new exactly when its fetch succeeded in this run and failed in the first;
\* the changed list and the log are empty when there is no such URL.
C2_SecondRunOnlyRefetched ==
    SecondOfSameRuns =>
        /\ Range(updated_or_new_urls) = (DOMAIN current_hashes) \ prevRun.ok
        /\ updateLog = updated_or_new_urls
        /\ ((DOMAIN current_hashes) \subseteq prevRun.ok => updated_or_new_urls = <<>>)

C2_Witness ==
    /\ SecondOfSameRuns
    /\ DOMAIN current_hashes # {}
    /\ (DOMAIN current_hashes) \subseteq prevRun.ok
    /\ checkFailed \cap prevRun.ok # {}

C11_ChangedSavedAndLogged ==
    mpc \in {"check", "save", "done"} =>
        /\ Range(updated_or_new_urls) =
               {u \in DOMAIN current_hashes : Get(previous_hashes, u) # current_hashes[u]}
        /\ updateLog = updated_or_new_urls
        /\ \A u \in Range(updated_or_new_urls) :
             /\ Count(updateLog, u) = 1
             /\ LocalPath(u, "source_html", BASE_URL) \in DOMAIN sourceDir
             /\ sourceDir[LocalPath(u, "source_html", BASE_URL)] = content[u]

\* C21: when the discovery loop has ended to_crawl is empty, every URL in
\* all_links has been crawled, crawled is all_links with the seed added, and
\* the seed is in all_links only if a link on a crawled page points to it.
C21_VisitedIsResultPlusSeed ==
    DiscoveryOver =>
        /\ to_crawl = {}
        /\ all_links \subseteq crawled
        /\ crawled = all_links \cup {BASE_URL}
        /\ (BASE_URL \in all_links =>
              \E q \in crawled \ discoverFailed : BASE_URL \in TrueLinks(q))

----------------------------------------------------------------------------
(* Claims on save_html_file, under SpecPath *)

\* the file name the claim gives for a path
MirrorName(q) ==
    IF q = <<>> \/ Last(q) = "" THEN "index.html"
    ELSE IF HasDot(Last(q)) THEN Last(q)
    ELSE Last(q) \o ".html"

MirrorDirs(q) == IF q = <<>> THEN <<>> ELSE Front(q)

\* the URL's path lies under the base URL's path
UnderBase ==
    /\ Len(hurl.path) >= Len(hbase.path)
    /\ \A j \in 1..(Len(hbase.path) - 1) : hurl.path[j] = hbase.path[j]

\* the segments of the URL's path that follow the base URL's path
BelowBase ==
    IF UnderBase THEN SubSeq(hurl.path, Len(hbase.path), Len(hurl.path)) ELSE hurl.path

ApiUrl == Url("docs", <<"docs", "api", "">>)

DocsBase == Url("docs", <<"docs", "">>)

\* C12 as stated: the file written is the mirror root followed by the segments
\* of the URL's path, index.html standing for an empty last segment and .html
\* added to a last segment without extension; docs/api/ under the base docs/
\* is written to <mirror root>/docs/api/index.html.
C12_MirrorsUrlPath ==
    (hstage = "saved" /\ hbody # "") =>
        /\ hdir = Put(EmptyMap, <<"mirror">> \o MirrorDirs(hurl.path)
                                    \o <<MirrorName(hurl.path)>>, hbody)
        /\ (hurl = ApiUrl /\ hbase = DocsBase =>
               DOMAIN hdir = {<<"mirror", "docs", "api", "index.html">>})

\* C12 as amended: the file written is the mirror root followed by the
\* segments of the URL's path that follow the base URL's path (all of them
\* when the URL is not under the base), with the same rules for index.html and
\* .html; docs/api/ under the base docs/ is written to
\* <mirror root>/api/index.html.
C12_MirrorsPathBelowBase ==
    (hstage = "saved" /\ hbody # "") =>
        /\ hdir = Put(EmptyMap, <<"mirror">> \o MirrorDirs(BelowBase)
                                    \o <<MirrorName(BelowBase)>>, hbody)
        /\ (hurl = ApiUrl /\ hbase = DocsBase =>
               DOMAIN hdir = {<<"mirror", "api", "index.html">>})

C12_Witness ==
    /\ hstage = "saved"
    /\ hurl = ApiUrl
    /\ hbase = DocsBase
    /\ hdir = Put(EmptyMap, <<"mirror", "api", "index.html">>, "v1")

\* the URL at the head of the check list was fetched two runs ago, was on the
\* list of the run before and failed to be fetched in it, the upstream is as
\* it was, and this step fetches it
FetchedAfterFailure(u) ==
    /\ mpc = "check"
    /\ checkQueue # <<>>
    /\ Head(checkQueue) = u
    /\ prevRun.completed
    /\ prevRun.content = content
    /\ u \in (prevRun.okBefore \cap prevRun.links) \ prevRun.ok
    /\ u \in DOMAIN current_hashes'

SelfLinked == {u \in Pages : u \in discover_links(u, BASE_URL, TRUE)}

\* C16 as stated: between the iterations of the discovery loop to_crawl and
\* crawled are disjoint, for every link graph, and a crawled URL is never
\* added to to_crawl again.
C16_WorklistDisjoint ==
    /\ [](mpc = "discover" => to_crawl \cap crawled = {})
    /\ [][(mpc = "discover" /\ mpc' = "discover") =>
             (to_crawl' \cap crawled) \subseteq to_crawl]_vars

\* C16, amended: discover_links is called once on every crawled URL and never
\* on another, a crawled URL stays crawled, and the only URLs that are in
\* to_crawl while crawled are those a page of their own links to; line
\* 109 drops them when they are popped.
C16_CrawledOnce ==
    /\ [](mpc = "discover" =>
            /\ \A u \in DOMAIN discoverCount : discoverCount[u] = 1
            /\ DOMAIN discoverCount = crawled
            /\ (to_crawl \cap crawled) \subseteq SelfLinked)
    /\ [][(mpc = "discover" /\ mpc' = "discover") =>
             /\ crawled \subseteq crawled'
             /\ \A u \in to_crawl \cap crawled :
                    u \in to_crawl' \/ (crawled' = crawled /\ discoverCount' = discoverCount)]_vars

C16_Witness ==
    /\ mpc = "discover"
    /\ to_crawl \cap crawled # {}
    /\ Cardinality(crawled) >= 2

\* the step is an iteration of the discovery loop in which the request for u raises
FetchFailsOn(u) ==
    /\ mpc = "discover"
    /\ u \notin discoverFailed
    /\ u \in discoverFailed'

\* C17: an iteration of the discovery loop whose request raises adds no link
\* to all_links or to_crawl and marks the URL crawled; the URL is not requested
\* again in the run; all_links never loses a URL during discovery; the loop
\* goes on while to_crawl is not empty and is left only when it is empty.
C17_FailedFetchSkipsLinks ==
    /\ [][\A u \in Pages :
             FetchFailsOn(u) =>
                /\ all_links' = all_links
                /\ to_crawl' = to_crawl \ {u}
                /\ crawled' = crawled \cup {u}]_vars
    /\ [](\A u \in discoverFailed : u \in crawled /\ discoverCount[u] = 1)
    /\ [][(mpc = "discover" /\ mpc' \in {"discover", "check"}) =>
             all_links \subseteq all_links']_vars
    /\ []((mpc = "discover" /\ to_crawl # {}) => ENABLED (DiscoverSkip \/ DiscoverPage))
    /\ [][(mpc = "discover" /\ mpc' = "check") => to_crawl = {}]_vars

C17_Witness ==
    /\ DiscoveryOver
    /\ \E u \in discoverFailed :
         /\ u \in all_links
         /\ \E v \in crawled \ discoverFailed : v # BASE_URL /\ v # u

\* C18: every URL in all_links is in scope and is what a link on a crawled
\* page, resolved against the URL of that page and stripped of fragment and
\* query, points to; an iteration adds exactly such targets of the page it
\* fetched.
C18_ResolvedAgainstPage ==
    /\ [](\A v \in all_links :
             /\ StartsWith(v, BASE_URL)
             /\ \E q \in crawled \ discoverFailed : v \in TrueLinks(q))
    /\ [][\A q \in Pages :
             (mpc = "discover" /\ q \in crawled' \ crawled /\ q \notin discoverFailed') =>
                all_links' = all_links \cup TrueLinks(q)]_vars

\* C22: the path save_html_file writes for a URL in scope is the path of no
\* other URL in scope, so a file it has written is never the file of another
\* page.
C22_LocalPathInjective ==
    (hstage = "saved" /\ StartsWith(hurl, hbase)) =>
        \A v \in PathUrls :
            (StartsWith(v, hbase) /\ v # hurl) =>
                /\ LocalPath(v, "mirror", hbase) # LocalPath(hurl, "mirror", hbase)
                /\ LocalPath(v, "mirror", hbase) \notin DOMAIN hdir

----------------------------------------------------------------------------
(* Claims on translate_soup_content, under SpecSoup *)

\* the positions of the text nodes of doc whose parent is a translatable tag,
\* that have no excluded tag among their ancestors, and whose text is not
\* empty when stripped
SpanPositions(doc) ==
    {i \in 1..Len(doc) :
        /\ doc[i].kind = "text"
        /\ doc[i].anc # <<>>
        /\ doc[i].anc[1] \in TRANSLATABLE_TAGS
        /\ \A k \in 1..Len(doc[i].anc) : doc[i].anc[k] \notin EXCLUDED_TAGS
        /\ Strip(doc[i].text) # <<>>}

\* C19: for every document, translatable_nodes is exactly the text nodes whose
\* parent tag is in TRANSLATABLE_TAGS, with no ancestor in EXCLUDED_TAGS and a
\* text that is not empty when stripped, in document order; and no other node
\* of the document is modified.
C19_SelectsTextSpans ==
    /\ sstage \in {"classified", "returned"} =>
          /\ Range(snodes) = SpanPositions(sdoc)
          /\ \A a, b \in 1..Len(snodes) : a < b => snodes[a] < snodes[b]
    /\ \A i \in (1..Len(sdoc)) \ SpanPositions(sdoc) : sout[i] = sdoc[i]

----------------------------------------------------------------------------
(* Claims on translate.py, under SpecTr and FairSpecTr *)

\* the starts of the batches of a document
BatchStarts(doc) ==
    {i \in 0..Len(TranslatableNodes(doc)) :
        i < Len(TranslatableNodes(doc)) /\ i % BATCH_SIZE = 0}

\* how the batch of file f that starts at i ended in this run: "ok", "fallback",
\* or "none" for a batch not submitted
Outcome(f, i) ==
    IF \E k \in 1..Len(runLog) : runLog[k].file = f /\ runLog[k].start = i
    THEN runLog[CHOOSE k \in 1..Len(runLog) : runLog[k].file = f /\ runLog[k].start = i].outcome
    ELSE "none"

HasFallback == \E k \in 1..Len(runLog) : runLog[k].outcome = "fallback"

InFile == tpc \in {"batch", "call", "write", "mark", "save"}

\* C3: in the run after an interrupted run, no file whose processing had
\* completed is read again, and when the loop over the files ends every other
\* file has been attempted.
C3_ResumesWithTheRest ==
    prior.interrupted =>
        /\ attempted \cap prior.completed = {}
        /\ (tpc = "done" /\ todo = <<>> => attempted = AllFiles \ prior.completed)

\* the characters counted for the batches the provider answered in this run
CountedChars ==
    Sum([k \in 1..Len(runLog) |->
            IF runLog[k].outcome = "ok"
            THEN TotalCharCount(
                     OriginalTexts(docs[runLog[k].file],
                                   BatchNodes(TranslatableNodes(docs[runLog[k].file]),
                                              runLog[k].start)),
                     terminology)
            ELSE 0])

\* a batch that fell back adds nothing to the counter and leaves its spans as
\* they were
C4_FallbackLeavesOriginal ==
    /\ tracker = CountedChars
    /\ InFile =>
         \A i \in BatchStarts(docs[Head(todo)]) :
            Outcome(Head(todo), i) = "fallback" =>
                \A n \in Range(BatchNodes(nodes, i)) : soup[n] = docs[Head(todo)][n]

\* C4: when every attempt for a batch raised a transient error, the batch's
\* texts come back unchanged with a count of 0, the counter does not grow, the
\* spans keep their text, and the run goes on through the remaining batches and
\* files to its end (unless it is killed or reaches the character limit).
C4_GracefulDegradation ==
    /\ []C4_FallbackLeavesOriginal
    /\ [](HasFallback =>
            <>(\/ tpc = "stopped"
               \/ tpc = "done" /\ (todo = <<>> \/ tracker >= CHAR_LIMIT_PER_MONTH)))

C4_Witness ==
    /\ tpc = "done"
    /\ Outcome("f1.html", 0) = "fallback"
    /\ Outcome("f1.html", BATCH_SIZE) = "ok"
    /\ Outcome("f2.html", 0) = "ok"
    /\ tracker > 0

\* translate_batch_with_retry has just returned to translate_soup_content
JustReturned ==
    /\ tpc = "batch"
    /\ runLog # <<>>
    /\ Last(runLog).file = Head(todo)
    /\ bi = Last(runLog).start + BATCH_SIZE

\* the calls and delays of one translate_batch_with_retry: at most 3 calls, a
\* delay of 5*k seconds after the k-th failed one, no call after a successful
\* one; what it returns is the restored translations with the characters
\* counted, or, after the 3rd failure, the original texts with 0
C13_RetrySchedule ==
    /\ calls <= 3
    /\ waits = [k \in 1..Len(waits) |-> 5 * k]
    /\ (tpc = "call" => calls = Len(waits) /\ calls < 3)
    /\ (JustReturned =>
          LET f == Head(todo)
              batch == BatchNodes(nodes, Last(runLog).start)
          IN  /\ tracker = CountedChars
              /\ IF Last(runLog).outcome = "ok"
                 THEN /\ calls = Len(waits) + 1
                      /\ \A j \in 1..Len(batch) :
                           soup[batch[j]].text = FinalText(docs[f][batch[j]].text, terminology)
                 ELSE /\ calls = 3
                      /\ waits = <<5, 10, 15>>
                      /\ \A j \in 1..Len(batch) :
                           soup[batch[j]].text = docs[f][batch[j]].text)

\* C13 as stated: the schedule above, and every translate_batch_with_retry
\* that is not killed ends by returning to translate_soup_content.
C13_AlwaysReturns ==
    /\ []C13_RetrySchedule
    /\ [][(tpc = "call" /\ tpc' \notin {"call", "stopped"}) => tpc' = "batch"]_vars
    /\ (tpc = "call" ~> tpc # "call")

\* C13 as amended: the schedule above, and every translate_batch_with_retry
\* that is not killed ends, by returning to translate_soup_content or by
\* letting through an exception of the provider that is no GoogleAPICallError.
C13_ReturnsOrRaises ==
    /\ []C13_RetrySchedule
    /\ [][(tpc = "call" /\ tpc' \notin {"call", "stopped"}) =>
             (tpc' = "batch" \/ (tpc' = "loop" /\ Head(todo) \in failed'))]_vars
    /\ (tpc = "call" ~> tpc # "call")

C13_Witness ==
    /\ JustReturned
    /\ Last(runLog).outcome = "ok"
    /\ calls = 3
    /\ waits = <<5, 10>>

\* the counter of a run that goes on never decreases, and it grows only in a
\* step in which the provider answers a batch, by the characters of that batch
CounterGrowsByAnswered ==
    (trun' = trun /\ tpc' # "stopped") =>
        /\ tracker' >= tracker
        /\ (tracker' # tracker =>
              /\ tpc = "call"
              /\ runLog' = Append(runLog, [file |-> Head(todo), start |-> bi,
                                          outcome |-> "ok"])
              /\ tracker' - tracker =
                    TotalCharCount(OriginalTexts(soup, BatchNodes(nodes, bi)), terminology))

C6_OwnTranslation ==
    InFile =>
        LET f == Head(todo) IN
        /\ Len(soup) = Len(docs[f])
        /\ nodes = TranslatableNodes(docs[f])
        /\ \A n \in 1..Len(soup) :
             /\ soup[n].anc = docs[f][n].anc
             /\ IF \E k \in 1..Len(nodes) : nodes[k] = n
                THEN LET k == CHOOSE k \in 1..Len(nodes) : nodes[k] = n
                         i == ((k - 1) \div BATCH_SIZE) * BATCH_SIZE
                     IN  soup[n].text = IF Outcome(f, i) = "ok"
                                        THEN FinalText(docs[f][n].text, terminology)
                                        ELSE docs[f][n].text
                ELSE soup[n].text = docs[f][n].text

C6_Witness ==
    /\ tpc = "write"
    /\ Head(todo) = "f1.html"
    /\ Outcome("f1.html", 0) = "ok"
    /\ Outcome("f1.html", BATCH_SIZE) = "ok"
    /\ soup[nodes[1]].text # soup[nodes[2]].text
    /\ soup[nodes[3]].text # docs["f1.html"][nodes[3]].text
    /\ soup[nodes[1]].text # docs["f1.html"][nodes[1]].text

\* C7: a file whose processing raised in this run (on reading, on translating
\* or on writing) is not in the processed set, in memory or on disk.
C7_FailedFileNotProcessed ==
    \A f \in failed : f \notin processed_files /\ f \notin load_processed_files

\* C8: every file this run has put in the processed set, no step of its
\* processing having raised, had every one of its batches answered by the
\* provider.
C8_ProcessedIsFullyTranslated ==
    \A f \in (processed_files \cap attempted) \ failed :
        \A i \in BatchStarts(docs[f]) : Outcome(f, i) = "ok"

\* C9: whenever the run is killed, the processed-file store holds every file
\* whose processing had completed.
C9_CrashKeepsCompleted ==
    tpc = "stopped" => completed \subseteq load_processed_files

----------------------------------------------------------------------------
(* Claims on the protection codec, under SpecCodec *)

HasMarker(text) ==
    \E i \in 1..Len(text) : text[i] \in {SpanOpen[3], "term"}

TermOccurs(text, dict) == \E k \in 1..Len(dict) : Contains(text, dict[k][1])

\* C5: protect_code_identifiers, protect_terminology, the identity translation
\* and unprotect_terminology give back the text they were given, with no
\* placeholder and no notranslate marker in it (stated for the texts in which
\* no term of the dictionary occurs).
C5_RoundTrip ==
    (cstage = "restored" /\ cstub = "identity" /\ ~TermOccurs(ctext, cdict)) =>
        (ccur = ctext /\ ~HasMarker(ccur))

\* the number of places of text at which sub occurs
Occurrences(text, sub) ==
    Cardinality({i \in 1..(Len(text) - Len(sub) + 1) : SubSeq(text, i, i + Len(sub) - 1) = sub})

\* C20: for every text and dictionary, after protect_terminology, a translation
\* that leaves the placeholders as they are, and unprotect_terminology, the
\* target term of every dictionary entry occurs once for each occurrence of
\* its source term in the original, no source term remains and no placeholder
\* remains, also when a term is part of another term or of the placeholder
\* markup (stated for the texts protect_code_identifiers leaves as they are).
C20_TermsReplaced ==
    (cstage = "restored" /\ protect_code_identifiers(ctext) = ctext) =>
        /\ \A k \in 1..Len(cdict) :
              Occurrences(ccur, cdict[k][2]) = Occurrences(ctext, cdict[k][1])
        /\ ~TermOccurs(ccur, cdict)
        /\ ~HasMarker(ccur)

====
